---- MODULE Spec2Model ----
(***************************************************************************)
(* Model of the PNLD asset-optimisation scripts:                           *)
(*   scripts/update-audio-references.js  (AudioFileUpdater)                *)
(*   scripts/compress-audio.js           (AudioCompressor, Opus/OGG)       *)
(*   scripts/compress-audio-mp3.js       (MP3Compressor, AudioOptimizer)   *)
(*   resources/conditional-mathjax.js    (MathJaxLoader, two versions)     *)
(*                                                                         *)
(* Strings are sequences of text fragments.  The fragment ".mp3" is the    *)
(* only fragment that contains the characters ".mp3", so String.endsWith   *)
(* and String.replace of the source can be computed fragment by fragment.  *)
(* JSON values are tagged records [t, v]; an object is the sequence of its *)
(* own enumerable properties in Object.entries order.                      *)
(***************************************************************************)
EXTENDS Integers, Sequences, FiniteSets, TLC

VARIABLES
    doc,        \* rewrite: the parsed document handed to updateObjectReferences
    res1,       \* rewrite: result of updateObjectReferences(doc)
    res2,       \* rewrite: result of updateObjectReferences(res1.data)
    rpc         \* rewrite: "input" | "once" | "twice"

rwVars == <<doc, res1, res2, rpc>>

VARIABLES
    tree,       \* the directory tree under baseDir (names and kinds)
    disk,       \* path |-> the file at that path (text and permissions)
    disk0,      \* disk as it was when the run started
    upc,        \* updater: "start" | "language" | "files" | "exited"
    languages,  \* updater: the language directories listed at the start
    li,         \* updater: index of the current language
    jsonFiles,  \* updater: findJsonFiles of the current language
    fi,         \* updater: index of the current JSON file
    stats,      \* updater: this.stats
    warnings,   \* updater: the paths named by console.warn, in order
    writes,     \* updater: the paths fs.writeFileSync has written, in order
    visited,    \* updater: the paths updateJsonFile has been called with
    summary,    \* updater: TRUE once the final summary is printed
    exitCode    \* exit status of the script, -1 while it runs

upVars == <<tree, disk, disk0, upc, languages, li, jsonFiles, fi, stats,
            warnings, writes, visited, summary, exitCode>>

VARIABLES
    variant,    \* compressor: "opus" (compress-audio.js) | "mp3"
    ffmpeg,     \* the encoder binary: "ok" | "missing" | "broken"
    live,       \* language |-> its audio directory under baseDir
    backup,     \* the backup directory: [exists, langs]
    live0,      \* live as it was when the run started
    backup0,    \* backup as it was when the run started
    cpc,        \* compressor: position of the run
    clanguages, \* compressor: the languages listed by compressAllFiles
    cli,        \* compressor: index of the current language
    mp3Files,   \* compressor: the files listed by compressLanguageFiles
    ci,         \* compressor: index i of the loop over mp3Files
    cstats,     \* compressor: this.stats
    child,      \* the encoder process compressFile waits for
    spawned,    \* the input files an encoder was spawned for, in order
    cExit       \* exit status of the compressor, -1 while it runs

cmVars == <<variant, ffmpeg, live, backup, live0, backup0, cpc, clanguages,
            cli, mp3Files, ci, cstats, child, spawned, cExit>>

VARIABLES
    ppc,        \* pipeline: position of AudioOptimizer.run
    pchild,     \* pipeline: the script runScript waits for
    launched    \* pipeline: the scripts whose process was started, in order

plVars == <<ppc, pchild, launched>>

VARIABLES
    mvariant,       \* loader: "located" (getConfigPath) | "fixed" (fixed paths)
    location,       \* loader: where the page is, "root" | "content"
    body,           \* loader: document.body.innerHTML, a sequence of tokens
    fetchResult,    \* loader: what fetch(configPath) and response.json() give
    mpc,            \* loader: position of the constructor and of init()
    config,         \* loader: this.config
    mathJaxLoaded,  \* loader: this.mathJaxLoaded
    head,           \* loader: the script elements appended to document.head
    forced          \* loader: the number of forceLoad() calls so far

mjVars == <<mvariant, location, body, fetchResult, mpc, config,
            mathJaxLoaded, head, forced>>

vars == <<rwVars, upVars, cmVars, plVars, mjVars>>

---------------------------------------------------------------------------
(* Strings                                                                 *)

MP3 == ".mp3"
OGG == ".ogg"

\* String.prototype.endsWith(suffix), suffix a single fragment
EndsWith(s, suffix) == Len(s) > 0 /\ s[Len(s)] = suffix

\* index of the first occurrence of fragment `from` in s, 0 when absent
RECURSIVE IndexOfFrom(_, _, _)
IndexOfFrom(s, from, i) ==
    IF i > Len(s) THEN 0
    ELSE IF s[i] = from THEN i
    ELSE IndexOfFrom(s, from, i + 1)

\* String.prototype.replace(from, to) with a string pattern: only the FIRST
\* occurrence of `from` is replaced
Replace(s, from, to) ==
    LET i == IndexOfFrom(s, from, 1)
    IN  IF i = 0 THEN s
        ELSE [j \in 1..Len(s) |-> IF j = i THEN to ELSE s[j]]

---------------------------------------------------------------------------
(* JSON values                                                             *)

Str(s)  == [t |-> "str", v |-> s]
Num     == [t |-> "num", v |-> <<"1">>]
Null    == [t |-> "null", v |-> <<>>]
Arr(xs) == [t |-> "arr", v |-> xs]
Obj(es) == [t |-> "obj", v |-> es]
Entry(key, value) == [k |-> key, v |-> value]

\* typeof x === 'string'
IsString(x) == x.t = "str"
\* Array.isArray(x)
IsArray(x) == x.t = "arr"
\* typeof x === 'object' && x !== null
IsObjectNotNull(x) == x.t \in {"arr", "obj"}

PROTO == "__proto__"

\* result.data[key] = value on an object created by the literal {}: an
\* ordinary key becomes a new own property (appended, keys of Object.entries
\* are distinct); the key "__proto__" runs the Object.prototype.__proto__
\* setter instead and no own property is created
SetProperty(data, key, value) ==
    IF key = PROTO THEN data ELSE Append(data, Entry(key, value))

---------------------------------------------------------------------------
(* AudioFileUpdater.updateObjectReferences                                 *)

Result(d, h, c) == [data |-> d, hasChanges |-> h, changeCount |-> c]

\* a slip: the nested subtree counts as one change
MergeNestedAsOne(result, nested) ==
    IF nested.hasChanges
    THEN [result EXCEPT !.hasChanges = TRUE, !.changeCount = @ + 1]
    ELSE result

\* if (nested.hasChanges) { result.hasChanges = true;
\*                          result.changeCount += nested.changeCount; }
MergeNested(result, nested) ==
    IF nested.hasChanges
    THEN [result EXCEPT !.hasChanges = TRUE,
                        !.changeCount = @ + nested.changeCount]
    ELSE result

\* result.hasChanges = true; result.changeCount++;
RecordChange(result) ==
    [result EXCEPT !.hasChanges = TRUE, !.changeCount = @ + 1]

RECURSIVE updateObjectReferences(_)
RECURSIVE MapItems(_, _, _)
RECURSIVE ForEntries(_, _, _)

\* obj.map(item => ...) : items i..Len(items), result threaded left to right
MapItems(items, i, result) ==
    IF i > Len(items) THEN result
    ELSE LET item == items[i]
         IN  IF IsString(item) /\ EndsWith(item.v, MP3)
             THEN MapItems(items, i + 1,
                    [RecordChange(result) EXCEPT
                        !.data = Append(@, Str(Replace(item.v, MP3, OGG)))])
             ELSE IF IsObjectNotNull(item)
             THEN LET nested == updateObjectReferences(item)
                  IN  MapItems(items, i + 1,
                        [MergeNested(result, nested) EXCEPT
                            !.data = Append(@, nested.data)])
             ELSE MapItems(items, i + 1,
                    [result EXCEPT !.data = Append(@, item)])

\* for (const [key, value] of Object.entries(obj)) ...
ForEntries(entries, i, result) ==
    IF i > Len(entries) THEN result
    ELSE LET key == entries[i].k
             value == entries[i].v
         IN  IF IsString(value) /\ EndsWith(value.v, MP3)
             THEN ForEntries(entries, i + 1,
                    RecordChange([result EXCEPT
                        !.data = SetProperty(@, key,
                                    Str(Replace(value.v, MP3, OGG)))]))
             ELSE IF IsObjectNotNull(value)
             THEN LET nested == updateObjectReferences(value)
                  IN  ForEntries(entries, i + 1,
                        MergeNested([result EXCEPT
                            !.data = SetProperty(@, key, nested.data)],
                            nested))
             ELSE ForEntries(entries, i + 1,
                    [result EXCEPT !.data = SetProperty(@, key, value)])

updateObjectReferences(obj) ==
    IF IsArray(obj)
    THEN LET r == MapItems(obj.v, 1, Result(<<>>, FALSE, 0))
         IN  [r EXCEPT !.data = Arr(@)]
    ELSE IF IsObjectNotNull(obj)
    THEN LET r == ForEntries(obj.v, 1, Result(<<>>, FALSE, 0))
         IN  [r EXCEPT !.data = Obj(@)]
    ELSE Result(obj, FALSE, 0)

---------------------------------------------------------------------------
(* Input documents of the rewrite: every JSON value of at most MaxNodes    *)
(* nodes (a scalar or a container is one node) over the scalars and keys   *)
(* below                                                                   *)

MaxNodes == 4

StrVals == { <<"a", MP3>>, <<"a", MP3, MP3>>, <<"b", ".png">> }
Scalars == {Str(s) : s \in StrVals} \cup {Num, Null}
Keys == {"sound", "track.mp3", PROTO}

\* sequences of n distinct keys
RECURSIVE KeySeqs(_)
KeySeqs(n) ==
    IF n = 0 THEN {<<>>}
    ELSE {Append(ks, key) : ks \in KeySeqs(n - 1), key \in Keys}

DistinctKeySeqs(n) ==
    {ks \in KeySeqs(n) : \A i, j \in 1..n : i # j => ks[i] # ks[j]}

RECURSIVE SeqsOfWeight(_, _)
RECURSIVE ValsUpTo(_, _)

\* sequences of values whose node counts add up to w; vals[m] holds the
\* values of exactly m nodes
SeqsOfWeight(vals, w) ==
    IF w = 0 THEN {<<>>}
    ELSE UNION {LET heads == vals[m]
                    rests == SeqsOfWeight(vals, w - m)
                IN  {<<x>> \o rest : x \in heads, rest \in rests} :
                m \in 1..w}

\* values of exactly w nodes, children taken from vals
ValsOfWeight(vals, w) ==
    IF w = 1 THEN Scalars \cup {Arr(<<>>), Obj(<<>>)}
    ELSE LET children == SeqsOfWeight(vals, w - 1)
         IN  {Arr(xs) : xs \in children}
             \cup UNION {{Obj([i \in 1..Len(xs) |-> Entry(ks[i], xs[i])]) :
                            ks \in DistinctKeySeqs(Len(xs))} :
                         xs \in children}

\* the table w |-> values of exactly w nodes, for w up to n
ValsUpTo(vals, w) ==
    IF w >= MaxNodes THEN vals
    ELSE ValsUpTo(vals @@ (w :> ValsOfWeight(vals, w)), w + 1)

ValsTable == ValsUpTo(<<>>, 1)


---------------------------------------------------------------------------
(* The content tree and its files                                          *)

File(name) == [name |-> name, kind |-> "file", items |-> <<>>]
Dir(name, items) == [name |-> name, kind |-> "dir", items |-> items]
\* a directory entry fs.statSync throws on (a symbolic link whose target is
\* gone)
Dangling(name) == [name |-> name, kind |-> "dangling", items |-> <<>>]

\* file text: JSON.parse throws on the malformed text; a valid text is the
\* document it parses to and the way it is laid out
Malformed == [valid |-> FALSE, doc |-> Null, layout |-> "none"]
Text(d, layout) == [valid |-> TRUE, doc |-> d, layout |-> layout]

\* JSON.stringify(data, null, 2): the text of `data` with 2-space indentation
JSONstringify(data) == Text(data, "indent2")

FileRec(text, readable, writable) ==
    [text |-> text, readable |-> readable, writable |-> writable]

---------------------------------------------------------------------------
(* AudioFileUpdater                                                        *)

\* [threw, files]: the paths collected so far, threw when fs.statSync threw
Found(threw, files) == [threw |-> threw, files |-> files]

\* traverse(currentDir) of findJsonFiles, from item i of `items` on
RECURSIVE traverse(_, _, _, _)
traverse(currentDir, items, i, found) ==
    IF found.threw \/ i > Len(items) THEN found
    ELSE LET item == items[i]
             itemPath == Append(currentDir, item.name)
         IN  IF item.kind = "dangling"
             THEN Found(TRUE, found.files)
             ELSE IF item.kind = "dir"
             THEN traverse(currentDir, items, i + 1,
                           traverse(itemPath, item.items, 1, found))
             ELSE IF EndsWith(item.name, ".json")
             THEN traverse(currentDir, items, i + 1,
                           Found(FALSE, Append(found.files, itemPath)))
             ELSE traverse(currentDir, items, i + 1, found)

findJsonFiles(directory, items) ==
    traverse(directory, items, 1, Found(FALSE, <<>>))

\* fs.readdirSync(baseDir).filter(dir => fs.statSync(...).isDirectory())
RECURSIVE DirectoriesOf(_, _, _)
DirectoriesOf(items, i, found) ==
    IF found.threw \/ i > Len(items) THEN found
    ELSE IF items[i].kind = "dangling" THEN Found(TRUE, found.files)
    ELSE IF items[i].kind = "dir"
    THEN DirectoriesOf(items, i + 1,
                       Found(FALSE, Append(found.files, items[i].name)))
    ELSE DirectoriesOf(items, i + 1, found)

\* the items of the directory baseDir/<language>
ItemsOf(items, language) ==
    (CHOOSE e \in {items[i] : i \in 1..Len(items)} :
        e.name = language /\ e.kind = "dir").items

\* what one call of updateJsonFile leaves behind
Outcome(d, st, w, wr, updated) ==
    [disk |-> d, stats |-> st, warnings |-> w, writes |-> wr,
     updated |-> updated]

\* a slip: the catch block reports the file as updated
CaughtAsUpdated(filePath, s) ==
    Outcome(s.disk, s.stats, Append(s.warnings, filePath), s.writes, TRUE)

\* a slip: an empty catch block, nothing is logged
CaughtSilently(filePath, s) ==
    Outcome(s.disk, s.stats, s.warnings, s.writes, FALSE)

\* catch (error) { console.warn(...); return false; }
Caught(filePath, s) ==
    Outcome(s.disk, s.stats, Append(s.warnings, filePath), s.writes, FALSE)

\* a slip: the file is written whether or not anything changed
ShouldWriteAlways(updatedData) == TRUE

\* if (updatedData.hasChanges)
ShouldWrite(updatedData) == updatedData.hasChanges

\* updateJsonFile(filePath), s the disk, stats and logs before the call
updateJsonFile(filePath, s) ==
    LET file == s.disk[filePath]
    IN  IF ~file.readable THEN Caught(filePath, s)       \* readFileSync throws
        ELSE IF ~file.text.valid THEN Caught(filePath, s) \* JSON.parse throws
        ELSE LET data == file.text.doc
                 updatedData == updateObjectReferences(data)
             IN  IF ShouldWrite(updatedData)
                 THEN IF ~file.writable
                      THEN Caught(filePath, s)        \* writeFileSync throws
                      ELSE Outcome(
                            [s.disk EXCEPT ![filePath].text =
                                JSONstringify(updatedData.data)],
                            [s.stats EXCEPT !.audioReferencesUpdated =
                                @ + updatedData.changeCount],
                            s.warnings,
                            Append(s.writes, filePath),
                            TRUE)
                 ELSE Outcome(s.disk, s.stats, s.warnings, s.writes, FALSE)

\* a slip: every file the loop visits is counted as updated
CountUpdatedAlways(st, updated) == [st EXCEPT !.jsonFilesUpdated = @ + 1]

\* if (updated) { this.stats.jsonFilesUpdated++; }
CountUpdated(st, updated) ==
    IF updated THEN [st EXCEPT !.jsonFilesUpdated = @ + 1] ELSE st

\* documents of the files of the content tree
DocNone   == Obj(<<Entry("sound", Str(<<"b", ".png">>))>>)
DocOne    == Obj(<<Entry("sound", Str(<<"a", MP3>>))>>)
DocNested == Arr(<<Str(<<"a", MP3>>),
                   Obj(<<Entry("sound", Str(<<"a", MP3, MP3>>))>>)>>)
DocScalar == Str(<<"a", MP3>>)

FileStates ==
    { FileRec(Malformed, TRUE, TRUE),
      FileRec(Text(DocOne, "compact"), FALSE, TRUE),
      FileRec(Text(DocNone, "compact"), TRUE, TRUE),
      FileRec(Text(DocOne, "compact"), TRUE, TRUE),
      FileRec(Text(DocNested, "indent2"), TRUE, TRUE),
      FileRec(Text(DocOne, "indent2"), TRUE, FALSE),
      FileRec(Text(DocScalar, "compact"), TRUE, TRUE) }

EN == <<"en">>
ES == <<"es">>
ContentJson == <<"content", ".json">>
MetaJson == <<"meta", ".json">>

\* en/content.json, en/audio/{a.mp3, meta.json}, en/notes.txt,
\* es/content.json, and a plain file beside the language directories
TreePlain ==
    << Dir(EN, << File(ContentJson),
                  Dir(<<"audio">>, <<File(<<"a", MP3>>), File(MetaJson)>>),
                  File(<<"notes", ".txt">>) >>),
       File(<<"README">>),
       Dir(ES, << File(ContentJson) >>) >>

\* the same tree with a dangling link in es/ after its content.json
TreeDangling ==
    << Dir(EN, << File(ContentJson),
                  Dir(<<"audio">>, <<File(<<"a", MP3>>), File(MetaJson)>>),
                  File(<<"notes", ".txt">>) >>),
       File(<<"README">>),
       Dir(ES, << File(ContentJson), Dangling(<<"old">>) >>) >>

Trees == {TreePlain, TreeDangling}

JsonPaths == { <<EN, ContentJson>>, <<EN, <<"audio">>, MetaJson>>,
               <<ES, ContentJson>> }

NewStats == [jsonFilesUpdated |-> 0, audioReferencesUpdated |-> 0]

---------------------------------------------------------------------------
(* The audio directories and the encoder                                   *)

\* an audio file: what it holds, and whether fs.unlinkSync of it throws
\* (EPERM: the file cannot be removed by the user running the script)
AudioFile(content, locked) == [content |-> content, locked |-> locked]

\* <language>/audio: absent, or the files in it by name
NoAudioDir == [exists |-> FALSE, files |-> <<>>]
AudioDir(files) == [exists |-> TRUE, files |-> files]

A_MP3 == <<"a", MP3>>
B_MP3 == <<"b", MP3>>
C_MP3 == <<"c", MP3>>
A_OGG == <<"a", OGG>>
B_OGG == <<"b", OGG>>
C_OGG == <<"c", OGG>>

\* the order in which fs.readdirSync lists file names and languages
NameOrder == <<A_MP3, A_OGG, B_MP3, B_OGG, C_MP3, C_OGG>>
LanguageOrder == <<"en", "es", "fr">>

\* path.join(dir, language, 'audio') in the tree fs
AudioDirOf(fs, language) ==
    IF language \in DOMAIN fs THEN fs[language] ELSE NoAudioDir

\* fs.existsSync of a file of an audio directory
FileExists(fs, language, name) ==
    /\ AudioDirOf(fs, language).exists
    /\ name \in DOMAIN AudioDirOf(fs, language).files

\* the file is created, or its content replaced
WriteFile(fs, language, name, content) ==
    LET dir == AudioDirOf(fs, language)
        file == IF name \in DOMAIN dir.files
                THEN [dir.files[name] EXCEPT !.content = content]
                ELSE AudioFile(content, FALSE)
    IN  (language :> AudioDir((name :> file) @@ dir.files)) @@ fs

\* fs.unlinkSync of an existing file that is not locked
Unlink(fs, language, name) ==
    LET dir == fs[language]
    IN  [fs EXCEPT ![language].files =
            [n \in (DOMAIN dir.files) \ {name} |-> dir.files[n]]]

\* fs.mkdirSync(targetAudioDir, { recursive: true })
Mkdir(fs, language) == (language :> AudioDir(<<>>)) @@ fs

\* fs.readdirSync(audioDir).filter(file => file.endsWith('.mp3'))
Mp3FilesOf(dir) ==
    SelectSeq(NameOrder,
              LAMBDA n : n \in DOMAIN dir.files /\ EndsWith(n, MP3))

\* fs.readdirSync(dir).filter(d => fs.statSync(...).isDirectory())
LanguagesOf(fs) == SelectSeq(LanguageOrder, LAMBDA l : l \in DOMAIN fs)

\* copyDirectory(src, dest): every directory and file of src, copied
copyDirectory(src) ==
    [l \in DOMAIN src |->
        [exists |-> src[l].exists,
         files |-> [n \in DOMAIN src[l].files |->
                        AudioFile(src[l].files[n].content, FALSE)]]]

NoBackup == [exists |-> FALSE, langs |-> <<>>]
Backup(langs) == [exists |-> TRUE, langs |-> langs]

\* createBackup(): skipped when the backup directory exists
createBackup(bk, src) ==
    IF bk.exists THEN bk ELSE Backup(copyDirectory(src))

\* a slip: the probe counts as passed whenever the process closes
FFmpegFoundOnAnyClose(probe) == probe # "missing"

\* checkFFmpeg(): 'close' resolves code === 0, 'error' resolves false
FFmpegFound(probe) == probe = "ok"

\* the number of .mp3 files analyzeCurrentFiles counts in the tree fs
RECURSIVE CountFiles(_, _, _)
CountFiles(fs, langs, i) ==
    IF i > Len(langs) THEN 0
    ELSE (IF fs[langs[i]].exists THEN Len(Mp3FilesOf(fs[langs[i]])) ELSE 0)
         + CountFiles(fs, langs, i + 1)

\* a slip: the outputs of MP3Compressor are written beside their inputs
OutputRootBesideInput(v) == IF v = "opus" THEN "live" ELSE "backup"

\* the directory the output path is under: audioDir of AudioCompressor and
\* targetAudioDir of MP3Compressor are both under this.baseDir
OutputRoot(v) == "live"

\* the tree of audio directories under the root: baseDir or backupDir
TreeAt(root, lv, bk) == IF root = "live" THEN lv ELSE bk.langs

\* compressFile: outputPath of the file named filename
OutputName(v, filename) ==
    IF v = "opus" THEN Replace(filename, MP3, OGG) ELSE filename

\* what the encoder writes when it succeeds
Encoded(v) == IF v = "opus" THEN "opus" ELSE "lame"

NoChild == [language |-> "", file |-> <<>>, output |-> <<>>,
            event |-> "none"]

\* [fs, threw]: the tree after a handler's file operations, threw when one
\* of them threw
Done(fs) == [fs |-> fs, threw |-> FALSE]
Threw(fs) == [fs |-> fs, threw |-> TRUE]

\* a slip: the failure handlers remove the input file
CleanUpRemovesInput(v, fs, c) ==
    IF ~FileExists(fs, c.language, c.file) THEN Done(fs)
    ELSE IF fs[c.language].files[c.file].locked THEN Threw(fs)
    ELSE Done(Unlink(fs, c.language, c.file))

\* if (fs.existsSync(outputPath)) { fs.unlinkSync(outputPath); }
\* in the failure handlers of MP3Compressor.compressFile; AudioCompressor's
\* handlers have no such statement
CleanUpOutput(v, fs, c) ==
    IF v = "opus" THEN Done(fs)
    ELSE IF ~FileExists(fs, c.language, c.output) THEN Done(fs)
    ELSE IF fs[c.language].files[c.output].locked THEN Threw(fs)
    ELSE Done(Unlink(fs, c.language, c.output))

\* the file operations of the 'close' handler after exit code 0:
\* fs.statSync(outputPath), and in AudioCompressor fs.unlinkSync(inputPath)
OnSuccess(v, fs, c) ==
    IF ~FileExists(fs, c.language, c.output) THEN Threw(fs)
    ELSE IF v = "mp3" THEN Done(fs)
    ELSE IF ~FileExists(fs, c.language, c.file) THEN Threw(fs)
    ELSE IF fs[c.language].files[c.file].locked THEN Threw(fs)
    ELSE Done(Unlink(fs, c.language, c.file))

\* a slip: the loop calls compressFile without awaiting it
LoopGoesOnUnawaited(pc) == pc \in {"file", "encoding"}

\* await this.compressFile(...): the loop of compressLanguageFiles goes on
\* only when the promise of the previous file has settled
LoopGoesOn(pc) == pc = "file"

NewCStats == [totalFiles |-> 0, processedFiles |-> 0, errors |-> <<>>]

\* audio directories of the runs
EnDirs ==
    { AudioDir(A_MP3 :> AudioFile("orig", FALSE)),
      AudioDir((A_MP3 :> AudioFile("orig", FALSE))
               @@ (B_MP3 :> AudioFile("orig", TRUE))),
      AudioDir((A_MP3 :> AudioFile("orig", FALSE))
               @@ (A_OGG :> AudioFile("old", FALSE))) }
EsDirs == { NoAudioDir, AudioDir(A_MP3 :> AudioFile("orig", FALSE)) }

LiveTrees == { ("en" :> d1) @@ ("es" :> d2) : d1 \in EnDirs, d2 \in EsDirs }

\* a backup left by an earlier run: en with a file the live tree has lost,
\* and a language the live tree does not have
StaleBackup ==
    Backup(("en" :> AudioDir((A_MP3 :> AudioFile("orig", FALSE))
                             @@ (C_MP3 :> AudioFile("orig", FALSE))))
           @@ ("fr" :> AudioDir(A_MP3 :> AudioFile("orig", FALSE))))

---------------------------------------------------------------------------
(* AudioOptimizer: the pipeline of the two scripts                         *)

COMPRESS == "compress-audio.js"
UPDATE == "update-audio-references.js"

\* spawn('node', [scriptPath]): the process runs, or it cannot be started
\* and the child emits 'error'
Spawn(script, started) ==
    [script |-> script, event |-> IF started THEN "running" ELSE "error"]

\* a slip: the promise of runScript resolves on every 'close'
ScriptSucceededOnAnyClose(code) == TRUE

\* child.on('close', code => { if (code === 0) resolve(); else reject(); })
ScriptSucceeded(code) == code = 0

\* files of the content tree in the runs of the pipeline
PipelineFileStates ==
    { FileRec(Text(DocOne, "compact"), TRUE, TRUE),
      FileRec(Text(DocNone, "compact"), TRUE, TRUE),
      FileRec(Malformed, TRUE, TRUE) }

---------------------------------------------------------------------------
(* MathJaxLoader                                                           *)

JTrue == [t |-> "bool", v |-> <<"true">>]
JFalse == [t |-> "bool", v |-> <<"false">>]
Zero == [t |-> "num", v |-> <<"0">>]
\* the value of a property an object does not have
Undefined == [t |-> "undefined", v |-> <<>>]
\* the outcome of an expression that throws a TypeError
TypeError == [t |-> "throw", v |-> <<>>]

\* the value x as the condition of an if or the left side of &&
Truthy(x) ==
    CASE x.t = "bool" -> x.v = <<"true">>
      [] x.t = "str" -> x.v # <<>>
      [] x.t = "num" -> x.v # <<"0">>
      [] x.t \in {"null", "undefined"} -> FALSE
      [] OTHER -> TRUE

\* x[key]: a TypeError on null and undefined, undefined when x has no such
\* property
GetProp(x, key) ==
    IF x.t \in {"null", "undefined"} THEN TypeError
    ELSE IF x.t = "obj" /\ \E i \in 1..Len(x.v) : x.v[i].k = key
    THEN x.v[CHOOSE i \in 1..Len(x.v) : x.v[i].k = key].v
    ELSE Undefined

\* a slip: only the presence of config.features is tested
FeatureEnabledAnyFeatures(cfg) ==
    IF GetProp(cfg, "features") = TypeError THEN "throw"
    ELSE IF Truthy(GetProp(cfg, "features")) THEN "yes" ELSE "no"

\* this.config.features && this.config.features.mathJax, as the condition
\* of the if: "yes" | "no" | "throw"
FeatureEnabled(cfg) ==
    LET features == GetProp(cfg, "features")
    IN  IF features = TypeError THEN "throw"
        ELSE IF ~Truthy(features) THEN "no"
        ELSE IF Truthy(GetProp(features, "mathJax")) THEN "yes" ELSE "no"

\* tokens of document.body.innerHTML
LPAREN == "\\("
RPAREN == "\\)"
LBRACK == "\\["
RBRACK == "\\]"
DOLLAR == "$"
NEWLINE == "\n"
MATHTAG == "<math>"
MATHXTAG == "<mathx"
MMLTAG == "<mml:"
CLASSQ == "class=\""
QUOTE == "\""

\* no token of s strictly between positions i and j is a line break: `.`
\* of a regular expression does not match one
NoNewline(s, i, j) == \A k \in (i + 1)..(j - 1) : s[k] # NEWLINE

\* /open.*?close/ for the one-token delimiters open and close
Delimited(s, open, close) ==
    \E i \in 1..Len(s) : \E j \in (i + 1)..Len(s) :
        s[i] = open /\ s[j] = close /\ NoNewline(s, i, j)

\* /\$\$.*?\$\$/
DoubleDollar(s) ==
    \E i \in 1..Len(s) : \E j \in (i + 2)..(Len(s) - 1) :
        /\ s[i] = DOLLAR /\ s[i + 1] = DOLLAR
        /\ s[j] = DOLLAR /\ s[j + 1] = DOLLAR
        /\ NoNewline(s, i + 1, j)

\* /\$[^$]+\$/
SingleDollar(s) ==
    \E i \in 1..Len(s) : \E j \in (i + 2)..Len(s) :
        /\ s[i] = DOLLAR /\ s[j] = DOLLAR
        /\ \A k \in (i + 1)..(j - 1) : s[k] # DOLLAR

\* /<math[\s>]/ and /<mml:/
MathElement(s) == \E i \in 1..Len(s) : s[i] \in {MATHTAG, MMLTAG}

\* /class=".*math.*"/
MathClass(s) ==
    \E i \in 1..Len(s) : \E j \in (i + 1)..Len(s) : \E k \in (j + 1)..Len(s) :
        /\ s[i] = CLASSQ
        /\ s[j] \in {"math", MATHTAG, MATHXTAG}
        /\ s[k] \in {QUOTE, CLASSQ}
        /\ NoNewline(s, i, k)

\* checkForMathContent(): mathPatterns.some(pattern => pattern.test(content))
hasMathContent(content) ==
    \/ Delimited(content, LPAREN, RPAREN)
    \/ Delimited(content, LBRACK, RBRACK)
    \/ DoubleDollar(content)
    \/ SingleDollar(content)
    \/ MathElement(content)
    \/ MathClass(content)

\* getConfigPath() and getMathJaxPath(); the other version of the loader
\* has the root-level paths fixed
getConfigPath(v, loc) ==
    IF v = "located" /\ loc = "content" THEN "../resources/config.json"
    ELSE "./PNLD/resources/config.json"

getMathJaxPath(v, loc) ==
    IF v = "located" /\ loc = "content"
    THEN "../resources/libs/mathjax/tex-mml-chtml.js"
    ELSE "./PNLD/resources/libs/mathjax/tex-mml-chtml.js"

\* a script element in document.head: who called loadMathJax ("auto" from
\* init, "force" from forceLoad) and whether it is loading, loaded or failed
Script(src, by) == [src |-> src, by |-> by, state |-> "pending"]

\* loadMathJax(): if (this.mathJaxLoaded) return; ... appendChild(script)
loadMathJax(loaded, hd, src, by) ==
    IF loaded THEN hd ELSE Append(hd, Script(src, by))

\* page bodies
Bodies ==
    { <<"x">>,
      <<LPAREN, "x", RPAREN>>,
      <<LPAREN, NEWLINE, RPAREN>>,
      <<RPAREN, "x", LPAREN>>,
      <<LBRACK, "x", RBRACK>>,
      <<DOLLAR, DOLLAR, DOLLAR, DOLLAR>>,
      <<DOLLAR, DOLLAR, "x", NEWLINE, DOLLAR, DOLLAR>>,
      <<DOLLAR, "5", NEWLINE, DOLLAR, "10">>,
      <<DOLLAR, DOLLAR>>,
      <<MATHTAG>>,
      <<MATHXTAG>>,
      <<MMLTAG>>,
      <<CLASSQ, "math", QUOTE>>,
      <<CLASSQ, "x", QUOTE, "math">>,
      <<CLASSQ, NEWLINE, "math", QUOTE>> }

\* what the server answers to the fetch of the config
Fetched(kind, value) == [kind |-> kind, value |-> value]

Features(value) == Obj(<<Entry("features", value)>>)

Configs ==
    { Null, Num, Obj(<<>>), Features(Null), Features(Str(<<"on">>)),
      Features(Obj(<<>>)),
      Features(Obj(<<Entry("mathJax", JTrue)>>)),
      Features(Obj(<<Entry("mathJax", JFalse)>>)),
      Features(Obj(<<Entry("mathJax", Zero)>>)),
      Features(Obj(<<Entry("mathJax", Str(<<"false">>))>>)),
      Features(Obj(<<Entry("tts", JTrue), Entry("mathJax", JTrue)>>)) }

FetchResults ==
    { Fetched("networkError", Null), Fetched("notJson", Null) }
        \cup { Fetched("json", c) : c \in Configs }

\* forceLoad() is called at most this many times in a run
MaxForce == 2

---------------------------------------------------------------------------
(* Initial states                                                          *)

NoResult == Result(Null, FALSE, 0)

IdleRewrite ==
    /\ doc = Null
    /\ res1 = NoResult
    /\ res2 = NoResult
    /\ rpc = "idle"

IdleUpdater ==
    /\ tree = <<>>
    /\ disk = <<>>
    /\ disk0 = <<>>
    /\ upc = "idle"
    /\ languages = <<>>
    /\ li = 0
    /\ jsonFiles = <<>>
    /\ fi = 0
    /\ stats = NewStats
    /\ warnings = <<>>
    /\ writes = <<>>
    /\ visited = {}
    /\ summary = FALSE
    /\ exitCode = -1

IdleCompressor ==
    /\ variant = "none"
    /\ ffmpeg = "ok"
    /\ live = <<>>
    /\ backup = NoBackup
    /\ live0 = <<>>
    /\ backup0 = NoBackup
    /\ cpc = "idle"
    /\ clanguages = <<>>
    /\ cli = 0
    /\ mp3Files = <<>>
    /\ ci = 0
    /\ cstats = NewCStats
    /\ child = NoChild
    /\ spawned = <<>>
    /\ cExit = -1

NoScript == [script |-> "", event |-> "none"]

IdlePipeline ==
    /\ ppc = "idle"
    /\ pchild = NoScript
    /\ launched = <<>>

IdleMathJax ==
    /\ mvariant = "none"
    /\ location = "root"
    /\ body = <<>>
    /\ fetchResult = [kind |-> "none", value |-> Null]
    /\ mpc = "idle"
    /\ config = Null
    /\ mathJaxLoaded = FALSE
    /\ head = <<>>
    /\ forced = 0

\* the scenario document of the specification:
\* {"sound": "intro.mp3", "list": ["a.mp3", "b.png"]}
ScenarioDoc ==
    Obj(<<Entry("sound", Str(<<"intro", MP3>>)),
          Entry("list", Arr(<<Str(<<"a", MP3>>), Str(<<"b", ".png">>)>>))>>)

InitRewrite ==
    /\ \/ doc = ScenarioDoc
       \/ \E w \in 0..(MaxNodes - 1) :
            \E xs \in SeqsOfWeight(ValsTable, w) :
                \/ doc = Arr(xs)
                \/ \E ks \in DistinctKeySeqs(Len(xs)) :
                        doc = Obj([i \in 1..Len(xs) |-> Entry(ks[i], xs[i])])
       \/ doc \in Scalars
    /\ res1 = NoResult
    /\ res2 = NoResult
    /\ rpc = "input"
    /\ IdleUpdater
    /\ IdleCompressor
    /\ IdlePipeline
    /\ IdleMathJax

InitUpdaterRun ==
    /\ tree \in Trees
    /\ disk \in [JsonPaths -> FileStates]
    /\ disk0 = disk
    /\ upc = "start"
    /\ languages = <<>>
    /\ li = 0
    /\ jsonFiles = <<>>
    /\ fi = 0
    /\ stats = NewStats
    /\ warnings = <<>>
    /\ writes = <<>>
    /\ visited = {}
    /\ summary = FALSE
    /\ exitCode = -1
    /\ IdleRewrite
    /\ IdleCompressor
    /\ IdlePipeline
    /\ IdleMathJax

InitCompressor ==
    /\ variant \in {"opus", "mp3"}
    /\ ffmpeg \in {"ok", "missing", "broken"}
    /\ live \in LiveTrees
    /\ backup \in {NoBackup, Backup(copyDirectory(live)), StaleBackup}
    /\ live0 = live
    /\ backup0 = backup
    /\ cpc = "init"
    /\ clanguages = <<>>
    /\ cli = 0
    /\ mp3Files = <<>>
    /\ ci = 0
    /\ cstats = NewCStats
    /\ child = NoChild
    /\ spawned = <<>>
    /\ cExit = -1
    /\ IdleRewrite
    /\ IdleUpdater
    /\ IdlePipeline
    /\ IdleMathJax

---------------------------------------------------------------------------
(* Actions of the rewrite                                                  *)

\* first run: updateObjectReferences(data) of updateJsonFile
Rewrite ==
    /\ rpc = "input"
    /\ res1' = updateObjectReferences(doc)
    /\ rpc' = "once"
    /\ UNCHANGED <<doc, res2, upVars, cmVars, plVars, mjVars>>

\* second run on the converted document
RewriteAgain ==
    /\ rpc = "once"
    /\ res2' = updateObjectReferences(res1.data)
    /\ rpc' = "twice"
    /\ UNCHANGED <<doc, res1, upVars, cmVars, plVars, mjVars>>

---------------------------------------------------------------------------
(* Actions of the reference updater                                        *)

\* updater.updateAudioReferences().catch(console.error): the rejection is
\* printed and the process ends with status 0
UpdRejected ==
    /\ upc' = "exited"
    /\ exitCode' = 0
    /\ UNCHANGED <<tree, disk, disk0, languages, li, jsonFiles, fi, stats,
                   warnings, writes, visited, summary>>

\* updateAudioReferences up to the for loop: list the language directories
UpdStart ==
    /\ upc = "start"
    /\ LET found == DirectoriesOf(tree, 1, Found(FALSE, <<>>))
       IN  IF found.threw
           THEN UpdRejected
           ELSE /\ languages' = found.files
                /\ li' = 1
                /\ upc' = "language"
                /\ UNCHANGED <<tree, disk, disk0, jsonFiles, fi, stats,
                               warnings, writes, visited, summary, exitCode>>
    /\ UNCHANGED <<rwVars, cmVars, plVars, mjVars>>

\* updateLanguageReferences(lang) up to its for loop: findJsonFiles(langDir)
UpdLanguage ==
    /\ upc = "language"
    /\ li <= Len(languages)
    /\ LET lang == languages[li]
           found == findJsonFiles(<<lang>>, ItemsOf(tree, lang))
       IN  IF found.threw
           THEN UpdRejected
           ELSE /\ jsonFiles' = found.files
                /\ fi' = 1
                /\ upc' = "files"
                /\ UNCHANGED <<tree, disk, disk0, languages, li, stats,
                               warnings, writes, visited, summary, exitCode>>
    /\ UNCHANGED <<rwVars, cmVars, plVars, mjVars>>

\* one turn of the loop of updateLanguageReferences: updateJsonFile(jsonFile)
\* and, if it reports an update, jsonFilesUpdated++
UpdJsonFile ==
    /\ upc = "files"
    /\ fi <= Len(jsonFiles)
    /\ LET jsonFile == jsonFiles[fi]
           out == updateJsonFile(jsonFile,
                    [disk |-> disk, stats |-> stats, warnings |-> warnings,
                     writes |-> writes])
       IN  /\ disk' = out.disk
           /\ warnings' = out.warnings
           /\ writes' = out.writes
           /\ stats' = CountUpdated(out.stats, out.updated)
           /\ visited' = visited \cup {jsonFile}
    /\ fi' = fi + 1
    /\ UNCHANGED <<tree, disk0, upc, languages, li, jsonFiles, summary,
                   exitCode>>
    /\ UNCHANGED <<rwVars, cmVars, plVars, mjVars>>

\* the loop of updateLanguageReferences is over: back in updateAudioReferences
UpdLanguageDone ==
    /\ upc = "files"
    /\ fi > Len(jsonFiles)
    /\ li' = li + 1
    /\ upc' = "language"
    /\ UNCHANGED <<tree, disk, disk0, languages, jsonFiles, fi, stats,
                   warnings, writes, visited, summary, exitCode>>
    /\ UNCHANGED <<rwVars, cmVars, plVars, mjVars>>

\* every language is done: the summary is printed and the process ends
UpdFinish ==
    /\ upc = "language"
    /\ li > Len(languages)
    /\ summary' = TRUE
    /\ upc' = "exited"
    /\ exitCode' = 0
    /\ UNCHANGED <<tree, disk, disk0, languages, li, jsonFiles, fi, stats,
                   warnings, writes, visited>>
    /\ UNCHANGED <<rwVars, cmVars, plVars, mjVars>>

---------------------------------------------------------------------------
(* Actions of the compressors                                              *)

\* the process ends with the given status; nothing else changes
CExit(status) ==
    /\ cpc' = "exited"
    /\ cExit' = status
    /\ UNCHANGED <<variant, ffmpeg, live, backup, live0, backup0,
                   clanguages, cli, mp3Files, ci, cstats, child, spawned>>

\* init() up to the await of checkFFmpeg(): spawn('ffmpeg', ['-version'])
CInit ==
    /\ cpc = "init"
    /\ cpc' = "probing"
    /\ UNCHANGED <<variant, ffmpeg, live, backup, live0, backup0,
                   clanguages, cli, mp3Files, ci, cstats, child, spawned,
                   cExit>>
    /\ UNCHANGED <<rwVars, upVars, plVars, mjVars>>

\* the probe's 'close' or 'error' handler and the continuation of init():
\* process.exit(1) when FFmpeg is not found
CProbeDone ==
    /\ cpc = "probing"
    /\ IF ~FFmpegFound(ffmpeg)
       THEN CExit(1)
       ELSE /\ cpc' = "analyze"
            /\ UNCHANGED <<variant, ffmpeg, live, backup, live0, backup0,
                           clanguages, cli, mp3Files, ci, cstats, child,
                           spawned, cExit>>
    /\ UNCHANGED <<rwVars, upVars, plVars, mjVars>>

\* analyzeCurrentFiles(): AudioCompressor reads baseDir; MP3Compressor reads
\* backupDir, and fs.readdirSync throws when it does not exist: init()
\* rejects, compressor.init().catch(console.error) prints it, status 0
CAnalyze ==
    /\ cpc = "analyze"
    /\ IF variant = "mp3" /\ ~backup.exists
       THEN CExit(0)
       ELSE LET fs == IF variant = "opus" THEN live ELSE backup.langs
            IN  /\ cstats' = [cstats EXCEPT !.totalFiles =
                                CountFiles(fs, LanguagesOf(fs), 1)]
                /\ cpc' = "backup"
                /\ UNCHANGED <<variant, ffmpeg, live, backup, live0,
                               backup0, clanguages, cli, mp3Files, ci,
                               child, spawned, cExit>>
    /\ UNCHANGED <<rwVars, upVars, plVars, mjVars>>

\* compressAllFiles() up to its for loop: createBackup(), then the
\* languages are listed (from baseDir, in MP3Compressor from backupDir)
CBackup ==
    /\ cpc = "backup"
    /\ backup' = createBackup(backup, live)
    /\ clanguages' = LanguagesOf(IF variant = "opus" THEN live
                                 ELSE backup'.langs)
    /\ cli' = 1
    /\ cpc' = "language"
    /\ UNCHANGED <<variant, ffmpeg, live, live0, backup0, mp3Files, ci,
                   cstats, child, spawned, cExit>>
    /\ UNCHANGED <<rwVars, upVars, plVars, mjVars>>

\* compressLanguageFiles(language) up to its for loop
CLanguage ==
    /\ cpc = "language"
    /\ cli <= Len(clanguages)
    /\ LET language == clanguages[cli]
           source == IF variant = "opus" THEN AudioDirOf(live, language)
                     ELSE AudioDirOf(backup.langs, language)
       IN  IF ~source.exists
           THEN /\ cli' = cli + 1
                /\ UNCHANGED <<live, mp3Files, ci, cpc>>
           ELSE /\ live' = IF variant = "mp3"
                              /\ ~AudioDirOf(live, language).exists
                           THEN Mkdir(live, language)
                           ELSE live
                /\ mp3Files' = Mp3FilesOf(source)
                /\ ci' = 1
                /\ cpc' = "file"
                /\ UNCHANGED cli
    /\ UNCHANGED <<variant, ffmpeg, backup, live0, backup0, clanguages,
                   cstats, child, spawned, cExit>>
    /\ UNCHANGED <<rwVars, upVars, plVars, mjVars>>

\* one turn of the loop up to the await: compressFile(...) stats the input
\* and spawns the encoder (a throwing statSync rejects, and the catch block
\* records the error)
CCompressFile ==
    /\ LoopGoesOn(cpc)
    /\ ci <= Len(mp3Files)
    /\ LET language == clanguages[cli]
           file == mp3Files[ci]
           inputs == IF variant = "opus" THEN live ELSE backup.langs
       IN  IF ~FileExists(inputs, language, file)
           THEN /\ cstats' = [cstats EXCEPT !.errors = Append(@, file)]
                /\ ci' = ci + 1
                /\ UNCHANGED <<child, spawned, cpc>>
           ELSE /\ child' = [language |-> language, file |-> file,
                             output |-> OutputName(variant, file),
                             event |-> "running"]
                /\ spawned' = Append(spawned, <<language, file>>)
                /\ cpc' = "encoding"
                /\ UNCHANGED <<cstats, ci>>
    /\ UNCHANGED <<variant, ffmpeg, live, backup, live0, backup0,
                   clanguages, cli, mp3Files, cExit>>
    /\ UNCHANGED <<rwVars, upVars, plVars, mjVars>>

\* the tree under the root of the output paths becomes fs; the other tree
\* is left as it is
StoreOutputTree(fs) ==
    /\ live' = IF OutputRoot(variant) = "live" THEN fs ELSE live
    /\ backup' = IF OutputRoot(variant) = "live" THEN backup ELSE Backup(fs)

\* the encoder process: it cannot be started ('error'), or it runs and
\* exits: with code 0 after writing the output, or with another code
\* having written nothing or a part of the output
EncoderRuns ==
    /\ cpc = "encoding"
    /\ child.event = "running"
    /\ \E outcome \in {"ok", "fail", "failPartial", "spawnError"} :
        /\ LET fs == TreeAt(OutputRoot(variant), live, backup)
           IN  StoreOutputTree(
                IF outcome = "ok"
                THEN WriteFile(fs, child.language, child.output,
                               Encoded(variant))
                ELSE IF outcome = "failPartial"
                THEN WriteFile(fs, child.language, child.output, "partial")
                ELSE fs)
        /\ child' = [child EXCEPT !.event =
                        IF outcome = "ok" THEN "exit0"
                        ELSE IF outcome = "spawnError" THEN "error"
                        ELSE "exit1"]
    /\ UNCHANGED <<variant, ffmpeg, live0, backup0, cpc,
                   clanguages, cli, mp3Files, ci, cstats, spawned, cExit>>
    /\ UNCHANGED <<rwVars, upVars, plVars, mjVars>>

\* an exception thrown inside an event handler is not caught by the
\* try/catch around the await: the process dies with status 1
CUncaught(fs) ==
    /\ StoreOutputTree(fs)
    /\ cpc' = "exited"
    /\ cExit' = 1
    /\ UNCHANGED <<cstats, ci, child>>

\* the promise of compressFile resolves: processedFiles++, next turn
CResolved(fs) ==
    /\ StoreOutputTree(fs)
    /\ cstats' = [cstats EXCEPT !.processedFiles = @ + 1]
    /\ ci' = ci + 1
    /\ child' = NoChild
    /\ cpc' = "file"
    /\ UNCHANGED cExit

\* the promise of compressFile rejects: the catch block pushes the error
CRejected(fs) ==
    /\ StoreOutputTree(fs)
    /\ cstats' = [cstats EXCEPT !.errors = Append(@, child.file)]
    /\ ci' = ci + 1
    /\ child' = NoChild
    /\ cpc' = "file"
    /\ UNCHANGED cExit

\* ffmpeg.on('close', code => ...) and the continuation of the loop
COnClose ==
    /\ cpc = "encoding"
    /\ child.event \in {"exit0", "exit1"}
    /\ LET fs == TreeAt(OutputRoot(variant), live, backup)
           r == IF child.event = "exit0"
                THEN OnSuccess(variant, fs, child)
                ELSE CleanUpOutput(variant, fs, child)
       IN  IF r.threw THEN CUncaught(r.fs)
           ELSE IF child.event = "exit0" THEN CResolved(r.fs)
           ELSE CRejected(r.fs)
    /\ UNCHANGED <<variant, ffmpeg, live0, backup0, clanguages,
                   cli, mp3Files, spawned>>
    /\ UNCHANGED <<rwVars, upVars, plVars, mjVars>>

\* ffmpeg.on('error', error => ...) and the continuation of the loop.  The
\* 'close' event that follows a failed spawn finds the promise settled and
\* the output path already cleaned: it changes nothing and is left out
COnError ==
    /\ cpc = "encoding"
    /\ child.event = "error"
    /\ LET r == CleanUpOutput(variant,
                              TreeAt(OutputRoot(variant), live, backup),
                              child)
       IN  IF r.threw THEN CUncaught(r.fs) ELSE CRejected(r.fs)
    /\ UNCHANGED <<variant, ffmpeg, live0, backup0, clanguages,
                   cli, mp3Files, spawned>>
    /\ UNCHANGED <<rwVars, upVars, plVars, mjVars>>

\* the loop of compressLanguageFiles is over: next language
CLanguageDone ==
    /\ cpc = "file"
    /\ ci > Len(mp3Files)
    /\ cli' = cli + 1
    /\ cpc' = "language"
    /\ UNCHANGED <<variant, ffmpeg, live, backup, live0, backup0,
                   clanguages, mp3Files, ci, cstats, child, spawned, cExit>>
    /\ UNCHANGED <<rwVars, upVars, plVars, mjVars>>

\* every language is done: printFinalStats(), the process ends
CFinish ==
    /\ cpc = "language"
    /\ cli > Len(clanguages)
    /\ CExit(0)
    /\ UNCHANGED <<rwVars, upVars, plVars, mjVars>>

---------------------------------------------------------------------------
(* Actions of the pipeline                                                 *)

\* optimizer.run(): the content tree as the two scripts will find it; no
\* script has been started
InitPipeline ==
    /\ ppc = "start"
    /\ pchild = NoScript
    /\ launched = <<>>
    /\ variant = "opus"
    /\ ffmpeg \in {"ok", "missing"}
    /\ live \in LiveTrees
    /\ backup \in {NoBackup, Backup(copyDirectory(live))}
    /\ live0 = live
    /\ backup0 = backup
    /\ cpc = "idle"
    /\ clanguages = <<>>
    /\ cli = 0
    /\ mp3Files = <<>>
    /\ ci = 0
    /\ cstats = NewCStats
    /\ child = NoChild
    /\ spawned = <<>>
    /\ cExit = -1
    /\ tree \in Trees
    /\ disk \in [JsonPaths -> PipelineFileStates]
    /\ disk0 = disk
    /\ upc = "idle"
    /\ languages = <<>>
    /\ li = 0
    /\ jsonFiles = <<>>
    /\ fi = 0
    /\ stats = NewStats
    /\ warnings = <<>>
    /\ writes = <<>>
    /\ visited = {}
    /\ summary = FALSE
    /\ exitCode = -1
    /\ IdleRewrite
    /\ IdleMathJax

\* run() up to its first await: runScript('compress-audio.js')
PRunCompress ==
    /\ ppc = "start"
    /\ ppc' = "step1"
    /\ \E started \in BOOLEAN :
        /\ pchild' = Spawn(COMPRESS, started)
        /\ launched' = IF started THEN Append(launched, COMPRESS)
                       ELSE launched
        /\ cpc' = IF started THEN "init" ELSE cpc
    /\ UNCHANGED <<variant, ffmpeg, live, backup, live0, backup0,
                   clanguages, cli, mp3Files, ci, cstats, child, spawned,
                   cExit>>
    /\ UNCHANGED <<rwVars, upVars, mjVars>>

\* 'close' of compress-audio.js and the continuation of run(): on code 0
\* runScript('update-audio-references.js'), else the catch block
PCompressClosed ==
    /\ ppc = "step1"
    /\ pchild.event = "running"
    /\ cpc = "exited"
    /\ IF ScriptSucceeded(cExit)
       THEN /\ ppc' = "step2"
            /\ \E started \in BOOLEAN :
                /\ pchild' = Spawn(UPDATE, started)
                /\ launched' = IF started THEN Append(launched, UPDATE)
                               ELSE launched
                /\ upc' = IF started THEN "start" ELSE upc
       ELSE /\ ppc' = "failed"
            /\ pchild' = [pchild EXCEPT !.event = "closed"]
            /\ UNCHANGED <<launched, upc>>
    /\ UNCHANGED <<tree, disk, disk0, languages, li, jsonFiles, fi, stats,
                   warnings, writes, visited, summary, exitCode>>
    /\ UNCHANGED <<rwVars, cmVars, mjVars>>

\* 'error' of a script that could not be started: the catch block of run()
PScriptError ==
    /\ ppc \in {"step1", "step2"}
    /\ pchild.event = "error"
    /\ ppc' = "failed"
    /\ UNCHANGED <<pchild, launched>>
    /\ UNCHANGED <<rwVars, upVars, cmVars, mjVars>>

\* 'close' of update-audio-references.js and the continuation of run():
\* on code 0 the completion report, else the catch block
PUpdateClosed ==
    /\ ppc = "step2"
    /\ pchild.event = "running"
    /\ upc = "exited"
    /\ ppc' = IF ScriptSucceeded(exitCode) THEN "finished" ELSE "failed"
    /\ pchild' = [pchild EXCEPT !.event = "closed"]
    /\ UNCHANGED launched
    /\ UNCHANGED <<rwVars, upVars, cmVars, mjVars>>

---------------------------------------------------------------------------
(* Actions of the MathJax loader                                           *)

\* the loader script has run on a page; the DOM is not ready yet, or it is
\* and the loader is about to be constructed
InitMathJax ==
    /\ mvariant \in {"located", "fixed"}
    /\ location \in {"root", "content"}
    /\ body \in Bodies
    /\ fetchResult \in FetchResults
    /\ mpc = "loading"
    /\ config = Null
    /\ mathJaxLoaded = FALSE
    /\ head = <<>>
    /\ forced = 0
    /\ IdleRewrite
    /\ IdleUpdater
    /\ IdleCompressor
    /\ IdlePipeline

\* window.mathJaxLoader = new MathJaxLoader(): the constructor, and init()
\* up to its first await, fetch(configPath)
MConstruct ==
    /\ mpc = "loading"
    /\ config' = Null
    /\ mathJaxLoaded' = FALSE
    /\ mpc' = "fetching"
    /\ UNCHANGED <<mvariant, location, body, fetchResult, head, forced>>
    /\ UNCHANGED <<rwVars, upVars, cmVars, plVars>>

\* the fetch settles: a rejection goes to the catch block of init(),
\* otherwise init() awaits response.json()
MFetchSettled ==
    /\ mpc = "fetching"
    /\ mpc' = IF fetchResult.kind = "networkError" THEN "done" ELSE "parsing"
    /\ UNCHANGED <<mvariant, location, body, fetchResult, config,
                   mathJaxLoaded, head, forced>>
    /\ UNCHANGED <<rwVars, upVars, cmVars, plVars>>

\* response.json() settles and init() runs to its end: the config is
\* stored, and checkForMathContent() is called when the feature is enabled
MJsonSettled ==
    /\ mpc = "parsing"
    /\ mpc' = "done"
    /\ IF fetchResult.kind = "notJson"
       THEN UNCHANGED <<config, head>>
       ELSE /\ config' = fetchResult.value
            /\ head' =
                IF FeatureEnabled(fetchResult.value) = "yes"
                    /\ hasMathContent(body)
                THEN loadMathJax(mathJaxLoaded, head,
                                 getMathJaxPath(mvariant, location), "auto")
                ELSE head
    /\ UNCHANGED <<mvariant, location, body, fetchResult, mathJaxLoaded,
                   forced>>
    /\ UNCHANGED <<rwVars, upVars, cmVars, plVars>>

\* window.mathJaxLoader.forceLoad(), called by the page at any time after
\* the loader is constructed
MForceLoad ==
    /\ mpc \in {"fetching", "parsing", "done"}
    /\ forced < MaxForce
    /\ forced' = forced + 1
    /\ head' = loadMathJax(mathJaxLoaded, head,
                           getMathJaxPath(mvariant, location), "force")
    /\ UNCHANGED <<mvariant, location, body, fetchResult, mpc, config,
                   mathJaxLoaded>>
    /\ UNCHANGED <<rwVars, upVars, cmVars, plVars>>

\* script.onload of a script element that was loading
MScriptOnLoad ==
    /\ \E i \in 1..Len(head) :
        /\ head[i].state = "pending"
        /\ head' = [head EXCEPT ![i].state = "loaded"]
    /\ mathJaxLoaded' = TRUE
    /\ UNCHANGED <<mvariant, location, body, fetchResult, mpc, config,
                   forced>>
    /\ UNCHANGED <<rwVars, upVars, cmVars, plVars>>

\* script.onerror of a script element that was loading
MScriptOnError ==
    /\ \E i \in 1..Len(head) :
        /\ head[i].state = "pending"
        /\ head' = [head EXCEPT ![i].state = "failed"]
    /\ UNCHANGED <<mvariant, location, body, fetchResult, mpc, config,
                   mathJaxLoaded, forced>>
    /\ UNCHANGED <<rwVars, upVars, cmVars, plVars>>

---------------------------------------------------------------------------
(* Specifications                                                          *)

NextRewrite == Rewrite \/ RewriteAgain

SpecRewrite == InitRewrite /\ [][NextRewrite]_vars

NextUpdater ==
    \/ UpdStart
    \/ UpdLanguage
    \/ UpdJsonFile
    \/ UpdLanguageDone
    \/ UpdFinish

SpecUpdater == InitUpdaterRun /\ [][NextUpdater]_vars

\* the script runs to its end: Node keeps running the async functions of
\* the run until none can go on
SpecUpdaterFair == SpecUpdater /\ WF_vars(NextUpdater)

NextCompressor ==
    \/ CInit
    \/ CProbeDone
    \/ CAnalyze
    \/ CBackup
    \/ CLanguage
    \/ CCompressFile
    \/ EncoderRuns
    \/ COnClose
    \/ COnError
    \/ CLanguageDone
    \/ CFinish

SpecCompressor == InitCompressor /\ [][NextCompressor]_vars

NextPipeline ==
    \/ PRunCompress
    \/ PCompressClosed
    \/ PScriptError
    \/ PUpdateClosed
    \/ CInit
    \/ CProbeDone
    \/ CAnalyze
    \/ CBackup
    \/ CLanguage
    \/ CCompressFile
    \/ EncoderRuns
    \/ COnClose
    \/ COnError
    \/ CLanguageDone
    \/ CFinish
    \/ UpdStart
    \/ UpdLanguage
    \/ UpdJsonFile
    \/ UpdLanguageDone
    \/ UpdFinish

SpecPipeline == InitPipeline /\ [][NextPipeline]_vars

NextMathJax ==
    \/ MConstruct
    \/ MFetchSettled
    \/ MJsonSettled
    \/ MForceLoad
    \/ MScriptOnLoad
    \/ MScriptOnError

SpecMathJax == InitMathJax /\ [][NextMathJax]_vars

---------------------------------------------------------------------------
(* Claims about the rewrite (SpecRewrite)                                  *)

\* the string minus its trailing ".mp3" plus ".ogg"
SuffixReplaced(s) == Append(SubSeq(s, 1, Len(s) - 1), OGG)

\* the rewrite as the specification states it: every scalar string ending
\* in ".mp3" has that suffix replaced, every other value is kept as it is
RECURSIVE SuffixRewritten(_)
SuffixRewritten(x) ==
    IF IsString(x)
    THEN (IF EndsWith(x.v, MP3) THEN Str(SuffixReplaced(x.v)) ELSE x)
    ELSE IF IsArray(x)
    THEN Arr([i \in 1..Len(x.v) |-> SuffixRewritten(x.v[i])])
    ELSE IF x.t = "obj"
    THEN Obj([i \in 1..Len(x.v) |->
                Entry(x.v[i].k, SuffixRewritten(x.v[i].v))])
    ELSE x

\* number of strings ending in ".mp3" among the sequence elements and
\* mapping values of x, at any nesting depth
RECURSIVE CountMp3(_)
RECURSIVE CountMp3In(_, _)
CountMp3In(children, i) ==
    IF i > Len(children) THEN 0
    ELSE LET c == children[i]
         IN  (IF IsString(c) /\ EndsWith(c.v, MP3) THEN 1 ELSE CountMp3(c))
             + CountMp3In(children, i + 1)
CountMp3(x) ==
    IF IsArray(x) THEN CountMp3In(x.v, 1)
    ELSE IF x.t = "obj"
    THEN CountMp3In([i \in 1..Len(x.v) |-> x.v[i].v], 1)
    ELSE 0

\* containers, their keys in order and their lengths; scalars are leaves
RECURSIVE Shape(_)
Shape(x) ==
    IF IsArray(x) THEN Arr([i \in 1..Len(x.v) |-> Shape(x.v[i])])
    ELSE IF x.t = "obj"
    THEN Obj([i \in 1..Len(x.v) |-> Entry(x.v[i].k, Shape(x.v[i].v))])
    ELSE Str(<<>>)

\* C1 (as claimed): after updateObjectReferences(D), every scalar string of
\* D ending in ".mp3" has its trailing ".mp3" replaced by ".ogg" and every
\* other value is structurally equal to the value at the same position in D
C1_SuffixRewrite ==
    rpc # "input" => res1.data = SuffixRewritten(doc)

\* C2 (as claimed): a second rewrite of an already rewritten document
\* reports hasChanges = false and changeCount = 0
C2_Idempotent ==
    rpc = "twice" => (~res2.hasChanges /\ res2.changeCount = 0)

\* C4: changeCount equals the number of strings ending in ".mp3" among the
\* sequence elements and mapping values of D at any depth, hasChanges is
\* true exactly when that count is positive, and the scenario document
\* yields {"sound": "intro.ogg", "list": ["a.ogg", "b.png"]} with count 2
C4_ChangeCount ==
    rpc # "input" =>
        /\ res1.changeCount = CountMp3(doc)
        /\ res1.hasChanges <=> (CountMp3(doc) > 0)
        /\ doc = ScenarioDoc =>
              /\ res1.changeCount = 2
              /\ res1.data =
                    Obj(<<Entry("sound", Str(<<"intro", OGG>>)),
                          Entry("list", Arr(<<Str(<<"a", OGG>>),
                                              Str(<<"b", ".png">>)>>))>>)

\* a document with one match directly in the top sequence and one inside a
\* nested sequence has been rewritten
C4_Witness ==
    /\ rpc = "once"
    /\ doc = Arr(<<Str(<<"a", MP3>>), Arr(<<Str(<<"a", MP3>>)>>)>>)
    /\ res1.changeCount = 2

\* C5 (as claimed): the rewritten document has the same containers at the
\* same positions, each mapping the same keys in the same order, each
\* sequence the same length
C5_ShapePreserved ==
    rpc # "input" => Shape(res1.data) = Shape(doc)

---------------------------------------------------------------------------
(* Claims about a run of the reference updater (SpecUpdater)               *)

\* fs.writeFileSync has written the file at path p during the run
Written(p) == \E i \in 1..Len(writes) : writes[i] = p

\* the file at p was read and parsed, and the rewrite changed at least one
\* reference value of its document
ValueChanged(p) ==
    /\ disk0[p].readable
    /\ disk0[p].text.valid
    /\ CountMp3(disk0[p].text.doc) > 0

\* C3 (as claimed): a JSON file is written back if and only if at least one
\* reference value inside it changed, and a file whose document has no
\* value to change keeps its content
C3_WrittenIffChanged ==
    \A p \in visited :
        /\ Written(p) <=> ValueChanged(p)
        /\ ~ValueChanged(p) => disk[p] = disk0[p]

\* C3 (amended): a JSON file is written back if and only if at least one
\* reference value inside it changed and the file can be written; a file
\* that is not written keeps its content, and a written file holds the
\* rewritten document with 2-space indentation
C3_WrittenIffChangedAndWritable ==
    /\ \A p \in visited :
        /\ Written(p) <=> (ValueChanged(p) /\ disk0[p].writable)
        /\ ~Written(p) => disk[p] = disk0[p]
        /\ Written(p) =>
            /\ disk[p].text.layout = "indent2"
            /\ disk[p].text.doc # disk0[p].text.doc
    /\ \A p \in JsonPaths \ visited : disk[p] = disk0[p] /\ ~Written(p)

\* a finished run that wrote one file and left a file without any matching
\* value as it was
C3_Witness ==
    /\ summary
    /\ \E p, q \in visited :
        /\ Written(p)
        /\ disk0[q].text = Text(DocNone, "compact")
        /\ disk[q] = disk0[q]

\* the updater is about to call updateJsonFile on a readable file whose
\* text JSON.parse rejects
AtMalformed ==
    /\ upc = "files"
    /\ fi <= Len(jsonFiles)
    /\ disk[jsonFiles[fi]].readable
    /\ ~disk[jsonFiles[fi]].text.valid

\* C6: a malformed JSON file gets one warning naming it, is not written,
\* leaves both counters of stats as they were, and the loop goes on to the
\* next file; a run that reaches its summary has called updateJsonFile on
\* every JSON file of the tree
C6_MalformedSkipped ==
    /\ [](summary => visited = JsonPaths)
    /\ [][AtMalformed =>
            /\ warnings' = Append(warnings, jsonFiles[fi])
            /\ disk' = disk
            /\ writes' = writes
            /\ stats' = stats
            /\ upc' = "files"
            /\ jsonFiles' = jsonFiles
            /\ li' = li
            /\ fi' = fi + 1]_vars

\* a finished run whose first file was malformed and which later wrote the
\* last file
C6_Witness ==
    /\ summary
    /\ ~disk0[<<EN, ContentJson>>].text.valid
    /\ warnings # <<>>
    /\ warnings[1] = <<EN, ContentJson>>
    /\ Written(<<ES, ContentJson>>)

---------------------------------------------------------------------------
(* Claims about a run of a compressor (SpecCompressor)                     *)

\* C7 (as claimed): when the encoder of a file exits with a non-zero code,
\* no file is left at its output path, one error entry naming the input is
\* appended, processedFiles is not incremented and the loop goes on
C7_FailedEncodeLeavesNothing ==
    [][(cpc = "encoding" /\ child.event = "exit1") =>
            /\ ~FileExists(live', child.language, child.output)
            /\ cstats'.errors = Append(cstats.errors, child.file)
            /\ cstats'.processedFiles = cstats.processedFiles
            /\ cpc' = "file"
            /\ ci' = ci + 1]_vars

\* C8 (as claimed): when there is no backup directory at the start, the
\* whole tree has been copied to it before any encoder is spawned, before
\* any file of the tree changes, and by the end of the run; a backup that
\* exists at the start is left as it is
C8_BackupFirst ==
    /\ (~backup0.exists /\ ffmpeg = "ok"
            /\ (spawned # <<>> \/ live # live0 \/ cpc = "exited"))
        => backup = Backup(copyDirectory(live0))
    /\ backup0.exists => backup = backup0

\* C9: when the FFmpeg probe fails, no backup is made, no encoder is
\* spawned, no file is created, changed or deleted, and the process exits
\* with status 1
C9_NoEncoderNoWork ==
    ffmpeg # "ok" =>
        /\ backup = backup0
        /\ live = live0
        /\ spawned = <<>>
        /\ child = NoChild
        /\ cpc \in {"init", "probing", "exited"}
        /\ cpc = "exited" => cExit = 1

\* the probe exited with a non-zero code and the run is over, no backup made
C9_Witness ==
    /\ ffmpeg = "broken"
    /\ cpc = "exited"
    /\ cExit = 1
    /\ ~backup.exists

\* C10 (as claimed): a compressor exits with a non-zero status only when
\* the encoder binary was not found
C10_ExitStatus ==
    (cpc = "exited" /\ cExit # 0) => ffmpeg # "ok"

\* the loop of updateLanguageReferences over files[i..], s the disk, stats
\* and logs before it
RECURSIVE UpdateFiles(_, _, _)
UpdateFiles(files, i, s) ==
    IF i > Len(files) THEN s
    ELSE LET out == updateJsonFile(files[i], s)
         IN  UpdateFiles(files, i + 1,
                [disk |-> out.disk,
                 stats |-> CountUpdated(out.stats, out.updated),
                 warnings |-> out.warnings,
                 writes |-> out.writes])

\* the loop of updateAudioReferences over langs[i..]; a findJsonFiles that
\* throws rejects the run where it stands
RECURSIVE UpdateLanguages(_, _, _, _)
UpdateLanguages(t, langs, i, s) ==
    IF i > Len(langs) THEN s
    ELSE LET found == findJsonFiles(<<langs[i]>>, ItemsOf(t, langs[i]))
         IN  IF found.threw THEN s
             ELSE UpdateLanguages(t, langs, i + 1,
                                  UpdateFiles(found.files, 1, s))

\* a whole run of the updater on the tree t, listed in the order of t, from
\* the disk d
RunOutcome(t, d) ==
    LET found == DirectoriesOf(t, 1, Found(FALSE, <<>>))
        s == [disk |-> d, stats |-> NewStats, warnings |-> <<>>,
              writes |-> <<>>]
    IN  IF found.threw THEN s ELSE UpdateLanguages(t, found.files, 1, s)

\* the directory listings that hold the same entries as `items`, in every
\* order, at every level
RECURSIVE Reorderings(_)
Reorderings(items) ==
    LET n == Len(items)
        variants(i) ==
            IF items[i].kind = "dir"
            THEN {Dir(items[i].name, r) : r \in Reorderings(items[i].items)}
            ELSE {items[i]}
        choices == {f \in [1..n -> UNION {variants(i) : i \in 1..n}] :
                        \A i \in 1..n : f[i] \in variants(i)}
    IN  {[k \in 1..n |-> f[perm[k]]] :
            perm \in Permutations(1..n), f \in choices}

\* C18 (as claimed): whatever the order in which sibling files and
\* directories are enumerated, a run ends with the same content in every
\* file and the same jsonFilesUpdated and audioReferencesUpdated
C18_OrderIndependent ==
    upc = "exited" =>
        \A t \in Reorderings(tree) :
            /\ RunOutcome(t, disk0).disk = disk
            /\ RunOutcome(t, disk0).stats = stats

\* the encoders spawned so far whose result is not yet recorded in stats
Unrecorded == Len(spawned) - cstats.processedFiles - Len(cstats.errors)

\* C11: at most one encoder is in flight at any point of a run, and an
\* encoder is spawned only when no encoder is in flight and the result of
\* every encoder spawned before is recorded as a success or as an error
C11_StrictlySerial ==
    /\ [](Unrecorded \in {0, 1})
    /\ []((child.event = "running") => Unrecorded = 1)
    /\ [][spawned' # spawned =>
            /\ child = NoChild
            /\ Unrecorded = 0
            /\ spawned' = Append(spawned, <<child'.language, child'.file>>)
            /\ child'.event = "running"]_vars

\* a second encoder is running after the first one failed and was recorded
C11_Witness ==
    /\ Len(spawned) = 2
    /\ child.event = "running"
    /\ Len(cstats.errors) = 1

\* the sum of the numbers of values ending in ".mp3" that the documents of
\* the files ws[i..] held when the run started
RECURSIVE SumChanges(_, _)
SumChanges(ws, i) ==
    IF i > Len(ws) THEN 0
    ELSE CountMp3(disk0[ws[i]].text.doc) + SumChanges(ws, i + 1)

\* C12: in every state audioReferencesUpdated >= jsonFilesUpdated; when the
\* run has ended, jsonFilesUpdated is the number of files written during
\* the run and audioReferencesUpdated the sum of their change counts
C12_RunStats ==
    /\ stats.audioReferencesUpdated >= stats.jsonFilesUpdated
    /\ upc = "exited" =>
        /\ stats.jsonFilesUpdated =
                Cardinality({writes[i] : i \in 1..Len(writes)})
        /\ stats.jsonFilesUpdated = Len(writes)
        /\ stats.audioReferencesUpdated = SumChanges(writes, 1)

\* a run is over that wrote two files, one of them with two changed values,
\* and skipped a third one
C12_Witness ==
    /\ summary
    /\ stats.jsonFilesUpdated = 2
    /\ stats.audioReferencesUpdated = 3
    /\ Len(warnings) = 1

\* the file at p cannot be read, cannot be parsed, or holds a value to
\* change and cannot be written
FailsAt(d, p) ==
    \/ ~d[p].readable
    \/ ~d[p].text.valid
    \/ CountMp3(d[p].text.doc) > 0 /\ ~d[p].writable

Enumerated ==
    LET source == IF variant = "opus" THEN live0 ELSE backup.langs
    IN  UNION { { <<clanguages[i], f>> :
                    f \in { n \in DOMAIN AudioDirOf(source, clanguages[i]).files :
                                EndsWith(n, MP3) } } :
                i \in 1..Len(clanguages) }

\* C17 (as claimed): every attempt ends with exactly one of processedFiles
\* incremented or one error appended; every enumerated file is attempted
\* whatever happened to the files before it, so at the end of a run
\* processedFiles + errors.length is the number of files attempted; and
\* processedFiles <= totalFiles
C17_Accounting ==
    /\ [][(cpc = "encoding" /\ cpc' # "encoding") =>
            \/ /\ cstats'.processedFiles = cstats.processedFiles + 1
               /\ cstats'.errors = cstats.errors
            \/ /\ cstats'.processedFiles = cstats.processedFiles
               /\ cstats'.errors = Append(cstats.errors, child.file)]_vars
    /\ [](cpc = "exited" =>
            /\ Enumerated \subseteq {spawned[i] : i \in 1..Len(spawned)}
            /\ cstats.processedFiles + Len(cstats.errors) = Len(spawned))
    /\ [](cstats.processedFiles <= cstats.totalFiles)

\* the .mp3 files of the audio directory of language l in the tree fs
Mp3Names(fs, l) ==
    {n \in DOMAIN AudioDirOf(fs, l).files : EndsWith(n, MP3)}

\* the original .mp3 files that are no longer in the live tree
Deleted ==
    UNION { { <<l, f>> : f \in {n \in Mp3Names(live0, l) :
                                    ~FileExists(live, l, n)} } :
            l \in DOMAIN live0 }

\* C19: in the Opus compressor an original ".mp3" file disappears only in
\* the 'close' handler of its own encoder, after exit code 0 and with the
\* ".ogg" output there to be measured; after a failed start or a non-zero
\* exit the original is still there, so the files deleted by the end of a
\* run are as many as the files counted as processed
C19_DeleteOnlyAfterEncode ==
    /\ [][variant = "opus" =>
            \A l \in DOMAIN live : \A f \in Mp3Names(live, l) :
                ~FileExists(live', l, f) =>
                    /\ cpc = "encoding"
                    /\ child.event = "exit0"
                    /\ child.language = l
                    /\ child.file = f
                    /\ FileExists(live, l, child.output)
                    /\ live[l].files[child.output].content = Encoded("opus")
                    /\ cstats'.processedFiles = cstats.processedFiles + 1]_vars
    /\ [][(variant = "opus" /\ cpc = "encoding"
                /\ child.event \in {"exit1", "error"}) =>
            /\ FileExists(live', child.language, child.file)
            /\ live'[child.language].files[child.file]
                    = live0[child.language].files[child.file]]_vars
    /\ [](variant = "opus" => Cardinality(Deleted) = cstats.processedFiles)

\* a run of the Opus compressor is over: one encoder failed and its input is
\* still there, one succeeded and its input is gone
C19_Witness ==
    /\ variant = "opus"
    /\ cpc = "exited"
    /\ Len(cstats.errors) = 1
    /\ cstats.processedFiles = 1
    /\ Cardinality(Deleted) = 1

\* C20: the MP3 compressor spawns an encoder only for an input that is in
\* the backup directory, and once the backup exists no step of a run
\* creates, overwrites or deletes a file under it: not the encoder, not the
\* success path, not the cleanup after a non-zero exit or a failed start
C20_BackupUntouched ==
    /\ [][(variant = "mp3" /\ backup.exists) => backup' = backup]_vars
    /\ [][(variant = "mp3" /\ spawned' # spawned) =>
            /\ backup.exists
            /\ FileExists(backup.langs, child'.language, child'.file)]_vars
    /\ []((variant = "mp3" /\ backup0.exists) => backup = backup0)

\* a run of the MP3 compressor is over in which one file was compressed and
\* the output of another was cleaned up after its encoder failed
C20_Witness ==
    /\ variant = "mp3"
    /\ cpc = "exited"
    /\ cstats.processedFiles >= 1
    /\ Len(cstats.errors) >= 1
    /\ live # live0
    /\ backup.exists
    /\ backup = backup0

---------------------------------------------------------------------------
(* Claims about the pipeline (SpecPipeline)                                *)

\* the process of the script was started at some point
Launched(script) == \E i \in 1..Len(launched) : launched[i] = script

\* C14: update-audio-references.js is started only after compress-audio.js
\* was started and has closed with exit code 0, and it is never started
\* when compress-audio.js could not be started or closed with another code
C14_Sequential ==
    /\ [][launched' # launched =>
            \/ launched = <<>> /\ launched' = <<COMPRESS>>
            \/ /\ launched = <<COMPRESS>>
               /\ launched' = <<COMPRESS, UPDATE>>
               /\ cpc = "exited"
               /\ cExit = 0]_vars
    /\ [](upc # "idle" => Launched(UPDATE))
    /\ [](Launched(UPDATE) => Launched(COMPRESS) /\ cpc = "exited" /\ cExit = 0)
    /\ []((pchild.script = COMPRESS /\ pchild.event = "error")
                => ~Launched(UPDATE) /\ upc = "idle")
    /\ []((cpc = "exited" /\ cExit # 0) => ~Launched(UPDATE) /\ upc = "idle")

\* both scripts have run, one after the other, and the report is printed
C14_Witness ==
    /\ ppc = "finished"
    /\ launched = <<COMPRESS, UPDATE>>
    /\ cExit = 0
    /\ summary

\* the string values of the document x, at any nesting depth
RECURSIVE StringsIn(_)
StringsIn(x) ==
    IF IsString(x) THEN {x.v}
    ELSE IF IsArray(x) THEN UNION {StringsIn(x.v[i]) : i \in 1..Len(x.v)}
    ELSE IF x.t = "obj"
    THEN UNION {StringsIn(x.v[i].v) : i \in 1..Len(x.v)}
    ELSE {}

\* the audio file named r in the audio directory of the language of the
\* JSON file at path p was written by an encoder that exited with code 0
NamesEncodedFile(p, r) ==
    /\ FileExists(live, p[1][1], r)
    /\ live[p[1][1]].files[r].content = Encoded("opus")

\* C15 (as claimed): when the pipeline prints its completion report, no
\* ".mp3" file is left in any audio directory, and every reference that was
\* rewritten to ".ogg" names an audio file that was successfully encoded
C15_AllConverted ==
    ppc = "finished" =>
        /\ \A l \in DOMAIN live :
                \A n \in DOMAIN live[l].files : ~EndsWith(n, MP3)
        /\ \A p \in JsonPaths :
                Written(p) =>
                    \A r \in StringsIn(disk[p].text.doc)
                            \ StringsIn(disk0[p].text.doc) :
                        EndsWith(r, OGG) => NamesEncodedFile(p, r)

---------------------------------------------------------------------------
(* Claims about the MathJax loader (SpecMathJax)                           *)

\* the fetched text is JSON of an object whose features.mathJax is truthy
ConfigEnablesMathJax ==
    /\ fetchResult.kind = "json"
    /\ fetchResult.value.t = "obj"
    /\ \E i \in 1..Len(fetchResult.value.v) :
        LET e == fetchResult.value.v[i]
        IN  /\ e.k = "features"
            /\ e.v.t = "obj"
            /\ \E j \in 1..Len(e.v.v) :
                /\ e.v.v[j].k = "mathJax"
                /\ \/ e.v.v[j].v.t = "bool" /\ e.v.v[j].v.v = <<"true">>
                   \/ e.v.v[j].v.t = "str" /\ e.v.v[j].v.v # <<>>
                   \/ e.v.v[j].v.t = "num" /\ e.v.v[j].v.v # <<"0">>
                   \/ e.v.v[j].v.t \in {"obj", "arr"}

\* a script element appended by the automatic initialisation
AutoAppended == \E i \in 1..Len(head) : head[i].by = "auto"

\* C16: the automatic initialisation appends the script element only if the
\* fetched config has features.mathJax truthy and a math pattern matches
\* the body, and then it appends exactly one; when the config is disabled,
\* no pattern matches or the fetch or the parse fails, it appends none, and
\* unless forceLoad() is called the head stays empty and mathJaxLoaded false
C16_ConditionalLoad ==
    /\ AutoAppended => ConfigEnablesMathJax /\ hasMathContent(body)
    /\ Cardinality({i \in 1..Len(head) : head[i].by = "auto"}) <= 1
    /\ (ConfigEnablesMathJax /\ hasMathContent(body) /\ mpc = "done"
            /\ forced = 0) => AutoAppended
    /\ (~(ConfigEnablesMathJax /\ hasMathContent(body)) /\ forced = 0)
            => head = <<>> /\ ~mathJaxLoaded

\* init() has run to its end on a page with math and the feature enabled,
\* and the script it appended has loaded
C16_Witness ==
    /\ mpc = "done"
    /\ forced = 0
    /\ AutoAppended
    /\ mathJaxLoaded

\* C21 (as claimed): whatever the order of the automatic load, the
\* forceLoad() calls and the onload and onerror callbacks, at most one
\* MathJax script element is ever appended to document.head
C21_AtMostOneScript ==
    Len(head) <= 1

---------------------------------------------------------------------------
(* Claims about the keys of a rewritten document (SpecRewrite)             *)

\* of the keys the documents use, the one that ends in ".mp3"
KeyEndsInMp3(key) == key = "track.mp3"

\* where the keys ending in ".mp3" are in the document x: the paths, made of
\* keys and of sequence positions, from the top of x down to such a key
RECURSIVE Mp3KeyPaths(_)
Mp3KeyPaths(x) ==
    IF IsArray(x)
    THEN UNION { { <<ToString(i)>> \o path : path \in Mp3KeyPaths(x.v[i]) } :
                 i \in 1..Len(x.v) }
    ELSE IF x.t = "obj"
    THEN UNION { (IF KeyEndsInMp3(x.v[i].k) THEN {<<x.v[i].k>>} ELSE {})
                    \cup { <<x.v[i].k>> \o path :
                                path \in Mp3KeyPaths(x.v[i].v) } :
                 i \in 1..Len(x.v) }
    ELSE {}

\* C22 (as claimed): every key of D that ends in ".mp3" is in the rewritten
\* document, unchanged and at the same place, no other such key appears,
\* and the change count is the number of string values ending in ".mp3":
\* keys add nothing to it
C22_KeysUntouched ==
    rpc # "input" =>
        /\ Mp3KeyPaths(res1.data) = Mp3KeyPaths(doc)
        /\ res1.changeCount = CountMp3(doc)

====
